---- MODULE Spec2Model ----
(***************************************************************************)
(* Blog API (FastAPI + MongoDB): src/main.py (endpoints), src/post.py      *)
(* (schemas and CRUD service), src/database.py (get_db).                   *)
(*                                                                         *)
(* Strings are sequences of one-character strings.  A request is a slot    *)
(* of req; every store operation of a request is one atomic step, so that  *)
(* concurrent requests interleave between their store operations.          *)
(***************************************************************************)
EXTENDS Integers, Sequences, FiniteSets, TLC

\* ------------------------------------------------------------ bounds
NumReq == 2        \* concurrent request slots
NumIds == 2        \* ObjectIds the store hands out before inserts stop
MaxClock == 1500   \* the clock stops advancing here (microseconds)
TickStep == 500    \* microseconds per clock step

\* ------------------------------------------------- program constants
IdLen == 24            \* ObjectId hex string length
TitleMax == 50
ContentMax == 500
MillisMicros == 1000   \* BSON datetimes are whole milliseconds

\* An ObjectId is the bytes of its 24 hex digits.
OidBytes == IdLen \div 2

Reqs == 1..NumReq

Rep(c, n) == [i \in 1..n |-> c]

\* ------------------------------------------------------- characters
Lowers == <<"a","b","c","d","e","f","g","h","i","j","k","l","m",
            "n","o","p","q","r","s","t","u","v","w","x","y","z">>
Uppers == <<"A","B","C","D","E","F","G","H","I","J","K","L","M",
            "N","O","P","Q","R","S","T","U","V","W","X","Y","Z">>
HexDigits == <<"0","1","2","3","4","5","6","7","8","9","a","b","c","d","e","f">>

Chars ==
  {Lowers[i] : i \in 1..26} \cup {Uppers[i] : i \in 1..26}
    \cup {HexDigits[i] : i \in 1..16} \cup {" ", "\t", "\n", "\r", ".", "(", ")"}

\* str.lower() and str.upper(), one character at a time (tabulated once).
LowerTable ==
  [c \in Chars |-> IF \E i \in 1..26 : Uppers[i] = c
                   THEN Lowers[CHOOSE i \in 1..26 : Uppers[i] = c] ELSE c]
UpperTable ==
  [c \in Chars |-> IF \E i \in 1..26 : Lowers[i] = c
                   THEN Uppers[CHOOSE i \in 1..26 : Lowers[i] = c] ELSE c]
Lower(c) == LowerTable[c]
Upper(c) == UpperTable[c]
UpperStr(s) == [i \in 1..Len(s) |-> Upper(s[i])]

\* The value of a hex digit of either case, -1 for any other character.
HexTable ==
  [c \in Chars |-> IF \E i \in 1..16 : HexDigits[i] = LowerTable[c]
                   THEN (CHOOSE i \in 1..16 : HexDigits[i] = LowerTable[c]) - 1
                   ELSE -1]
IsHex(c) == HexTable[c] >= 0
HexVal(c) == HexTable[c]
IsSpace(c) == c \in {" ", "\t", "\n", "\r"}

\* ----------------------------------------------------- ObjectId (bson)
ValueError == <<-1>>

\* bytes.fromhex: whitespace between byte pairs is skipped, every byte is
\* two adjacent hex digits, anything else is a ValueError.
RECURSIVE FromHexAt(_, _, _)
FromHexAt(s, i, buf) ==
  IF i > Len(s) THEN buf
  ELSE IF IsSpace(s[i]) THEN FromHexAt(s, i + 1, buf)
  ELSE IF i + 1 > Len(s) \/ ~IsHex(s[i]) \/ ~IsHex(s[i + 1]) THEN ValueError
  ELSE FromHexAt(s, i + 2, Append(buf, 16 * HexVal(s[i]) + HexVal(s[i + 1])))

FromHex(s) == FromHexAt(s, 1, <<>>)

\* str(ObjectId): lower-case hex, two digits per byte.
Hexlify(oid) ==
  [i \in 1..(2 * Len(oid)) |->
     IF i % 2 = 1 THEN HexDigits[(oid[(i + 1) \div 2] \div 16) + 1]
                  ELSE HexDigits[(oid[i \div 2] % 16) + 1]]

\* The ids requests carry: those of the ObjectIds the store assigns, in
\* the order it assigns them and in either letter case, a well-formed id
\* of no document, and malformed ones: too short, a non-hex letter, and 24
\* characters with blanks between hex pairs.
PoolChars == <<"a","b","c","d","e">>
PoolIds == {Rep(PoolChars[k], IdLen) : k \in 1..NumIds}
AbsentId == Rep("f", IdLen)
ShortId == Rep("a", IdLen - 1)
NonHexId == Rep("g", IdLen)
BlankId == [i \in 1..IdLen |-> IF i % 3 = 0 THEN " " ELSE "a"]
AllIds ==
  PoolIds \cup {UpperStr(s) : s \in PoolIds}
          \cup {AbsentId, ShortId, NonHexId, BlankId, <<>>}
OidPool == {FromHex(s) : s \in PoolIds}

\* FromHex and Hexlify over those ids, computed once.
FromHexTable == [s \in AllIds |-> FromHex(s)]
HexlifyTable == [o \in OidPool |-> Hexlify(o)]

\* ObjectId(post_id): the binary id of a string id.
ObjectId(s) == FromHexTable[s]

\* ObjectId.is_valid(post_id) for a str: 24 characters that bytes.fromhex accepts.
ObjectIdIsValid(s) == Len(s) = IdLen /\ ObjectId(s) # ValueError

\* str(oid)
OidStr(oid) == HexlifyTable[oid]

\* ------------------------------------------------------ schemas (post.py)
\* PostCreate without max_length on content.
PostCreateNoContentMax(p) ==
  /\ "title" \in DOMAIN p
  /\ "content" \in DOMAIN p
  /\ Len(p.title) >= 1 /\ Len(p.title) <= TitleMax
  /\ Len(p.content) >= 1

\* PostCreate: both fields required, 1..50 and 1..500 characters.  A JSON
\* body is a record; a missing field is a missing key.
ValidPostCreate(p) ==
  /\ "title" \in DOMAIN p
  /\ "content" \in DOMAIN p
  /\ Len(p.title) >= 1 /\ Len(p.title) <= TitleMax
  /\ Len(p.content) >= 1 /\ Len(p.content) <= ContentMax

\* PostResponse.model_validate(document): _id -> id through str().
MapDoc(d) ==
  [id |-> OidStr(d._id), title |-> d.title, content |-> d.content,
   created |-> d.created]

\* Path(..., regex="^[0-9a-fA-F]{24}$") of the three /posts/{post_id} routes.
MatchesIdPattern(s) == Len(s) = IdLen /\ \A i \in 1..Len(s) : IsHex(s[i])
IdPatternTable == [s \in AllIds |-> MatchesIdPattern(s)]
PathIdOk(s) == IdPatternTable[s]

\* Query(..., min_length=1) of /posts/search.
QueryOk(q) == Len(q) >= 1

\* -------------------------------------------------- the store (pymongo)
\* A timestamp kept to the second.
ToWholeSeconds(t) == (t \div (1000 * MillisMicros)) * (1000 * MillisMicros)

\* datetime -> BSON datetime -> datetime: microseconds are truncated to
\* whole milliseconds.
ToMillis(t) == (t \div MillisMicros) * MillisMicros

None == [tag |-> "None"]
NoRet == [tag |-> "none"]
Found(d) == [tag |-> "doc", doc |-> d]
Bool(b) == [tag |-> "bool", val |-> b]
Docs(ds) == [tag |-> "list", docs |-> ds]

\* find_one({"_id": oid}) on a collection.
FindOne(coll, oid) ==
  IF \E d \in coll : d._id = oid
  THEN Found(CHOOSE d \in coll : d._id = oid)
  ELSE None

\* update_many({}, {"$set": ...}): the filter dropped.
UpdateEverySet(coll, oid, title, content) ==
  {[d EXCEPT !.title = title, !.content = content] : d \in coll}

\* update_one({"_id": oid}, {"$set": {title, content}}): the collection after.
UpdateOneSet(coll, oid, title, content) ==
  {IF d._id = oid THEN [d EXCEPT !.title = title, !.content = content] ELSE d
     : d \in coll}

\* update_one(...).matched_count
MatchedCount(coll, oid) == IF \E d \in coll : d._id = oid THEN 1 ELSE 0

\* deleted_count taken for the acknowledgement of the delete.
DeleteAcknowledged(coll, oid) == 1

\* delete_one({"_id": oid}): the collection after, and deleted_count.
DeleteOneFrom(coll, oid) == {d \in coll : d._id # oid}

DeletedCount(coll, oid) == IF \E d \in coll : d._id = oid THEN 1 ELSE 0

\* {"$regex": q, "$options": "i"}.  The pattern language modelled: literal
\* characters, "." (any character), "(" and ")" (grouping, no operators).
\* A pattern with unbalanced parentheses does not compile.
RECURSIVE ParenDepth(_, _, _)
ParenDepth(p, i, depth) ==
  IF depth < 0 THEN -1
  ELSE IF i > Len(p) THEN depth
  ELSE ParenDepth(p, i + 1,
         IF p[i] = "(" THEN depth + 1 ELSE IF p[i] = ")" THEN depth - 1 ELSE depth)

RegexCompiles(p) == ParenDepth(p, 1, 0) = 0

StripParens(p) == SelectSeq(p, LAMBDA c : c \notin {"(", ")"})

RegexMatchAt(p, t, i) ==
  \A k \in 1..Len(p) :
    /\ i + k - 1 <= Len(t)
    /\ \/ p[k] = "."
       \/ Lower(p[k]) = Lower(t[i + k - 1])

RegexSearch(p, t) ==
  LET q == StripParens(p)
  IN \E i \in 1..(Len(t) + 1) : RegexMatchAt(q, t, i)

FindRegex(coll, q) == {d \in coll : RegexSearch(q, d.title)}

\* ---------------------------------------------------------------- state
VARIABLES
  collection,  \* db["post"]: the stored documents
  used,        \* ObjectIds the store has assigned so far
  origin,      \* history: per ObjectId, the create call that made it, until updated or deleted
  now,         \* the server clock, microseconds
  req,         \* the requests in flight, one per slot
  clients      \* the MongoClient each slot's get_db opened last

vars == <<collection, used, origin, now, req, clients>>

NoBody == [absent |-> TRUE]
NoOrigin == [tag |-> "none"]
Touched == [tag |-> "touched"]

IdleSlot ==
  [pc |-> "idle", kind |-> "none", id |-> <<>>, body |-> NoBody, query |-> <<>>,
   ret |-> NoRet, err |-> "none", status |-> 0, t0 |-> 0, ops |-> 0,
   inserted |-> <<>>, matched |-> 0, db |-> 0]

NoClient == [state |-> "none", closes |-> 0, opener |-> 0, resumed |-> "none"]

Init ==
  /\ collection = {}
  /\ used = {}
  /\ origin = [o \in OidPool |-> NoOrigin]
  /\ now = 0
  /\ req = [r \in Reqs |-> IdleSlot]
  /\ clients = [c \in Reqs |-> NoClient]

\* ------------------------------------------------------ inputs drawn
P1 == [title |-> <<"a", "B">>, content |-> <<"x">>]
P2 == [title |-> Rep("c", TitleMax), content |-> Rep("y", ContentMax)]
ValidPayloads == {P1, P2}
InvalidPayloads ==
  { [content |-> <<"x">>],                                   \* title missing
    [title |-> <<>>, content |-> <<"x">>],                   \* title empty
    [title |-> Rep("c", TitleMax + 1), content |-> <<"x">>], \* title too long
    [title |-> <<"a", "B">>],                                \* content missing
    [title |-> <<"a", "B">>, content |-> <<>>],              \* content empty
    [title |-> <<"a", "B">>, content |-> Rep("y", ContentMax + 1)] }
PayloadInputs == ValidPayloads \cup InvalidPayloads

\* Ids a caller can pass: the ids responses have shown (either letter
\* case), the absent one and the malformed ones.
KnownIds == {OidStr(o) : o \in used}
IdInputs ==
  KnownIds \cup {UpperStr(s) : s \in KnownIds}
           \cup {AbsentId, ShortId, NonHexId, BlankId}
\* Over HTTP: the ids shown, an absent one and a malformed one.
ApiIdInputs == KnownIds \cup {AbsentId, BlankId}

QueryInputs == {<<>>, <<"b">>, <<"z">>, <<".">>, <<"(">>}

\* ------------------------------------------------- endpoints (main.py)
SuccessCode(kind) ==
  IF kind = "create" THEN 201 ELSE IF kind = "delete" THEN 204 ELSE 200

\* `if not post`, `if not updated_post`, `if not delete_post(...)`
Falsy(ret) == ret = None \/ ret = Bool(FALSE)

\* What is raised inside the endpoint's try block: the service's exception,
\* or the endpoint's own HTTPException(404).
RaisedInTry(kind, ret, err) ==
  IF err # "none" THEN err
  ELSE IF kind \in {"get", "update", "delete"} /\ Falsy(ret) THEN "HTTPException404"
  ELSE "none"

\* `except Exception as e`: HTTPException is a subclass of Exception, so the
\* clause catches the endpoint's own 404 as well.
ExceptExceptionCatches(exc) ==
  exc \in {"HTTPException404", "ValidationError", "OperationFailure",
           "InvalidDocument", "ServerSelectionTimeoutError"}

EndpointStatus(kind, ret, err) ==
  LET exc == RaisedInTry(kind, ret, err)
  IN IF exc = "none" THEN SuccessCode(kind)
     ELSE IF ExceptExceptionCatches(exc) THEN 500
     ELSE 404

\* The slot after the endpoint has produced its response.
Exit(r, ret, err, ops) ==
  [req EXCEPT ![r].pc = "exit", ![r].ret = ret, ![r].err = err, ![r].ops = ops,
              ![r].status = EndpointStatus(req[r].kind, ret, err)]

\* ------------------------------------------------- get_db (database.py)
\* client = MongoClient(MONGO_URI): a new client per call, here named by
\* the request that made it.
NewClient(r) == r

\* client.close() only on the plain path: no finally.
GetDbCloseOnReturn(r) == req[r].status < 400

\* finally: client.close() runs however the request ended.
GetDbFinally(r) == TRUE

FirstPc(kind) ==
  CASE kind = "create" -> "insert_one"
    [] kind = "list" -> "list_find"
    [] kind = "search" -> "search_find"
    [] kind = "get" -> "get_find"
    [] kind = "update" -> "update_one"
    [] kind = "delete" -> "delete_one"

\* A request arrives: get_db yields the handle, the parameters are
\* validated, and the endpoint body starts or the request is refused (422).
Arrive(r, kind, id, body, query, ok) ==
  /\ req[r].pc = "idle"
  /\ LET c == NewClient(r)
     IN /\ clients' = [clients EXCEPT ![c] = [state |-> "open", closes |-> 0, opener |-> r,
                                             resumed |-> "none"]]
        /\ req' = [req EXCEPT ![r] =
                     [IdleSlot EXCEPT !.pc = IF ok THEN FirstPc(kind) ELSE "exit",
                                      !.kind = kind, !.id = id, !.body = body,
                                      !.query = query, !.db = c,
                                      !.t0 = IF kind = "create" THEN now ELSE 0,
                                      !.status = IF ok THEN 0 ELSE 422]]
  /\ UNCHANGED <<collection, used, origin, now>>

\* The store hands out NumIds ObjectIds: a create is admitted while one is left.
PoolLeft ==
  Cardinality(used) + Cardinality({s \in Reqs : req[s].pc = "insert_one"}) < NumIds

\* POST /posts
BeginCreate(r) ==
  /\ PoolLeft
  /\ \E body \in PayloadInputs :
       Arrive(r, "create", <<>>, body, <<>>, ValidPostCreate(body))

\* GET /posts
BeginList(r) == Arrive(r, "list", <<>>, NoBody, <<>>, TRUE)

\* GET /posts/search?titulo=
BeginSearch(r) ==
  \E q \in QueryInputs : Arrive(r, "search", <<>>, NoBody, q, QueryOk(q))

\* GET /posts/{post_id}
BeginGet(r) ==
  \E id \in ApiIdInputs : Arrive(r, "get", id, NoBody, <<>>, PathIdOk(id))

\* PATCH /posts/{post_id}
BeginUpdate(r) ==
  \E id \in ApiIdInputs, body \in PayloadInputs :
    Arrive(r, "update", id, body, <<>>, PathIdOk(id) /\ ValidPostCreate(body))

\* DELETE /posts/{post_id}
BeginDelete(r) ==
  \E id \in ApiIdInputs : Arrive(r, "delete", id, NoBody, <<>>, PathIdOk(id))

\* The service functions called directly, with any id string and query and
\* a validated PostCreate.
CallCreatePost(r) ==
  /\ PoolLeft
  /\ \E body \in ValidPayloads : Arrive(r, "create", <<>>, body, <<>>, TRUE)
CallGetAllPosts(r) == Arrive(r, "list", <<>>, NoBody, <<>>, TRUE)
CallSearchPostsByTitle(r) ==
  \E q \in QueryInputs : Arrive(r, "search", <<>>, NoBody, q, TRUE)
CallGetPostById(r) ==
  \E id \in IdInputs : Arrive(r, "get", id, NoBody, <<>>, TRUE)
CallUpdatePost(r) ==
  \E id \in IdInputs, body \in ValidPayloads :
    Arrive(r, "update", id, body, <<>>, TRUE)
CallDeletePost(r) ==
  \E id \in IdInputs : Arrive(r, "delete", id, NoBody, <<>>, TRUE)

\* ------------------------------------------------ CRUD service (post.py)
\* An ObjectId built from 24 characters that hold blanks has fewer than 12
\* bytes.  What a query on such an id does is not fixed by the code: the
\* driver either sends an id no document has, or fails to encode it.
WellFormedOid(oid) == Len(oid) = OidBytes
MalformedOidOutcomes == {"nomatch", "raise"}

NextOid == ObjectId(Rep(PoolChars[Cardinality(used) + 1], IdLen))

\* create_post: datetime.now(), insert_one
InsertOne(r) ==
  /\ req[r].pc = "insert_one"
  /\ LET oid == NextOid
         doc == [_id |-> oid, title |-> req[r].body.title,
                 content |-> req[r].body.content, created |-> ToMillis(now)]
     IN /\ collection' = collection \cup {doc}
        /\ used' = used \cup {oid}
        /\ origin' = [origin EXCEPT ![oid] =
                        [tag |-> "fresh", title |-> doc.title,
                         content |-> doc.content, t0 |-> req[r].t0]]
        /\ req' = [req EXCEPT ![r].pc = "create_find", ![r].inserted = oid,
                              ![r].ops = @ + 1]
  /\ UNCHANGED <<now, clients>>

\* create_post: find_one({"_id": result.inserted_id}), model_validate
CreateFindOne(r) ==
  /\ req[r].pc = "create_find"
  /\ LET got == FindOne(collection, req[r].inserted)
     IN req' = IF got = None
               THEN Exit(r, NoRet, "ValidationError", req[r].ops + 1)
               ELSE Exit(r, Found(MapDoc(got.doc)), "none", req[r].ops + 1)
  /\ UNCHANGED <<collection, used, origin, now, clients>>

\* get_all_posts: find()
ListFind(r) ==
  /\ req[r].pc = "list_find"
  /\ req' = Exit(r, Docs({MapDoc(d) : d \in collection}), "none", req[r].ops + 1)
  /\ UNCHANGED <<collection, used, origin, now, clients>>

\* search_posts_by_title: find({"title": {"$regex": q, "$options": "i"}})
SearchFind(r) ==
  /\ req[r].pc = "search_find"
  /\ req' = IF RegexCompiles(req[r].query)
            THEN Exit(r, Docs({MapDoc(d) : d \in FindRegex(collection, req[r].query)}),
                      "none", req[r].ops + 1)
            ELSE Exit(r, NoRet, "OperationFailure", req[r].ops + 1)
  /\ UNCHANGED <<collection, used, origin, now, clients>>

\* get_post_by_id(db, id): the possible results [ret, err, ops].
GetPostById(coll, id) ==
  IF ~ObjectIdIsValid(id) THEN {[ret |-> None, err |-> "none", ops |-> 0]}
  ELSE IF ~WellFormedOid(ObjectId(id))
  THEN {IF o = "nomatch" THEN [ret |-> None, err |-> "none", ops |-> 1]
                         ELSE [ret |-> NoRet, err |-> "InvalidDocument", ops |-> 1]
          : o \in MalformedOidOutcomes}
  ELSE LET got == FindOne(coll, ObjectId(id))
       IN {[ret |-> IF got = None THEN None ELSE Found(MapDoc(got.doc)),
            err |-> "none", ops |-> 1]}

\* get_post_by_id called by GET /posts/{post_id}
GetFindOne(r) ==
  /\ req[r].pc = "get_find"
  /\ \E res \in GetPostById(collection, req[r].id) :
       req' = Exit(r, res.ret, res.err, req[r].ops + res.ops)
  /\ UNCHANGED <<collection, used, origin, now, clients>>

\* update_post: is_valid, update_one, matched_count
UpdateOne(r) ==
  /\ req[r].pc = "update_one"
  /\ LET id == req[r].id
         oid == ObjectId(id)
     IN IF ~ObjectIdIsValid(id)
        THEN /\ req' = Exit(r, None, "none", req[r].ops)
             /\ UNCHANGED <<collection, origin>>
        ELSE IF ~WellFormedOid(oid)
        THEN /\ \E o \in MalformedOidOutcomes :
                  req' = IF o = "nomatch"
                         THEN Exit(r, None, "none", req[r].ops + 1)
                         ELSE Exit(r, NoRet, "InvalidDocument", req[r].ops + 1)
             /\ UNCHANGED <<collection, origin>>
        ELSE IF MatchedCount(collection, oid) = 0
        THEN /\ req' = Exit(r, None, "none", req[r].ops + 1)
             /\ UNCHANGED <<collection, origin>>
        ELSE /\ collection' = UpdateOneSet(collection, oid, req[r].body.title,
                                           req[r].body.content)
             /\ origin' = [origin EXCEPT ![oid] = Touched]
             /\ req' = [req EXCEPT ![r].pc = "update_find", ![r].matched = 1,
                                   ![r].ops = @ + 1]
  /\ UNCHANGED <<used, now, clients>>

\* update_post: return get_post_by_id(db, post_id)
UpdateFindOne(r) ==
  /\ req[r].pc = "update_find"
  /\ \E res \in GetPostById(collection, req[r].id) :
       req' = Exit(r, res.ret, res.err, req[r].ops + res.ops)
  /\ UNCHANGED <<collection, used, origin, now, clients>>

\* delete_post: is_valid, delete_one, deleted_count == 1
DeleteOne(r) ==
  /\ req[r].pc = "delete_one"
  /\ LET id == req[r].id
         oid == ObjectId(id)
     IN IF ~ObjectIdIsValid(id)
        THEN /\ req' = Exit(r, Bool(FALSE), "none", req[r].ops)
             /\ UNCHANGED <<collection, origin>>
        ELSE IF ~WellFormedOid(oid)
        THEN /\ \E o \in MalformedOidOutcomes :
                  req' = IF o = "nomatch"
                         THEN Exit(r, Bool(FALSE), "none", req[r].ops + 1)
                         ELSE Exit(r, NoRet, "InvalidDocument", req[r].ops + 1)
             /\ UNCHANGED <<collection, origin>>
        ELSE /\ collection' = DeleteOneFrom(collection, oid)
             /\ origin' = IF oid \in OidPool /\ DeletedCount(collection, oid) = 1
                          THEN [origin EXCEPT ![oid] = Touched] ELSE origin
             /\ req' = Exit(r, Bool(DeletedCount(collection, oid) = 1), "none",
                            req[r].ops + 1)
  /\ UNCHANGED <<used, now, clients>>

\* The store cannot be reached: the pending store operation raises and
\* changes nothing.
StoreDown(r) ==
  /\ req[r].pc \notin {"idle", "exit"}
  /\ req[r].pc \in {"get_find", "update_one", "delete_one"} => ObjectIdIsValid(req[r].id)
  /\ req' = Exit(r, NoRet, "ServerSelectionTimeoutError", req[r].ops + 1)
  /\ UNCHANGED <<collection, used, origin, now, clients>>

\* get_db after the yield: the generator is resumed, by a plain return of
\* the endpoint or by the request's exception thrown in at the yield; the finally
\* block runs, and the request is over.
Teardown(r) ==
  /\ req[r].pc = "exit"
  /\ LET how == IF req[r].status >= 400 THEN "raise" ELSE "return"
     IN clients' = IF GetDbFinally(r)
                   THEN [clients EXCEPT ![req[r].db].state = "closed",
                                        ![req[r].db].closes = @ + 1,
                                        ![req[r].db].resumed = how]
                   ELSE [clients EXCEPT ![req[r].db].resumed = how]
  /\ req' = [req EXCEPT ![r] = IdleSlot]
  /\ UNCHANGED <<collection, used, origin, now>>

\* datetime.now() moves on.
Tick ==
  /\ now + TickStep <= MaxClock
  /\ now' = now + TickStep
  /\ UNCHANGED <<collection, used, origin, req, clients>>

\* --------------------------------------------------------- behaviours
Step(r) ==
  \/ InsertOne(r) \/ CreateFindOne(r) \/ ListFind(r) \/ SearchFind(r)
  \/ GetFindOne(r) \/ UpdateOne(r) \/ UpdateFindOne(r) \/ DeleteOne(r)
  \/ Teardown(r)

Solo == CHOOSE r \in Reqs : \A s \in Reqs : r <= s

\* The API serving one request at a time, the clock running.
Next ==
  \/ Tick
  \/ BeginCreate(Solo) \/ BeginList(Solo) \/ BeginSearch(Solo)
  \/ BeginGet(Solo) \/ BeginUpdate(Solo) \/ BeginDelete(Solo)
  \/ Step(Solo)
  \/ StoreDown(Solo)

Spec == Init /\ [][Next]_vars

\* The service functions called directly, one call at a time.
SvcNext ==
  \/ Tick
  \/ CallCreatePost(Solo) \/ CallGetAllPosts(Solo) \/ CallSearchPostsByTitle(Solo)
  \/ CallGetPostById(Solo) \/ CallUpdatePost(Solo) \/ CallDeletePost(Solo)
  \/ Step(Solo)
  \/ StoreDown(Solo)

SvcSpec == Init /\ [][SvcNext]_vars

\* The API serving NumReq requests at once, each in its own thread, within
\* one reading of the clock and with the store reachable.
ConcPayloads == ValidPayloads \cup {[content |-> <<"x">>]}
ConcIds == KnownIds \cup {AbsentId}

ConcCreate(r) ==
  /\ PoolLeft
  /\ \E body \in ConcPayloads :
       Arrive(r, "create", <<>>, body, <<>>, ValidPostCreate(body))
ConcList(r) == Arrive(r, "list", <<>>, NoBody, <<>>, TRUE)
ConcGet(r) ==
  \E id \in ConcIds : Arrive(r, "get", id, NoBody, <<>>, PathIdOk(id))
ConcUpdate(r) ==
  \E id \in ConcIds, body \in ConcPayloads :
    Arrive(r, "update", id, body, <<>>, PathIdOk(id) /\ ValidPostCreate(body))
ConcDelete(r) ==
  \E id \in ConcIds : Arrive(r, "delete", id, NoBody, <<>>, PathIdOk(id))

ConcStep(r) ==
  \/ InsertOne(r) \/ CreateFindOne(r) \/ ListFind(r)
  \/ GetFindOne(r) \/ UpdateOne(r) \/ UpdateFindOne(r) \/ DeleteOne(r)
  \/ Teardown(r)

ConcNext ==
  \E r \in Reqs :
    \/ ConcCreate(r) \/ ConcList(r) \/ ConcGet(r) \/ ConcUpdate(r) \/ ConcDelete(r)
    \/ ConcStep(r)

ConcSpec == Init /\ [][ConcNext]_vars

\* The same, every endpoint thread running to its end.
FairSpec == Init /\ [][ConcNext]_vars /\ \A r \in Reqs : WF_vars(ConcStep(r))

\* ------------------------------------------------------------- claims
AtExit(r, kind) == req[r].pc = "exit" /\ req[r].kind = kind /\ req[r].status # 422
StoreUp(r) == req[r].err # "ServerSelectionTimeoutError"

\* C1: when the service reports "not found" (None from get_post_by_id or
\* update_post, False from delete_post) the response status is 404, and a
\* 500 is answered only when the service or the store raised.
C1_NotFoundIs404 ==
  \A r \in Reqs :
    (req[r].pc = "exit" /\ req[r].kind \in {"get", "update", "delete"}
       /\ req[r].status # 422)
      => /\ (req[r].err = "none" /\ Falsy(req[r].ret)) => req[r].status = 404
         /\ req[r].status = 500 => req[r].err # "none"

\* A get_post_by_id that returns, on the id create_post returned, while the
\* document is as create_post left it.
GetAfterCreate(r) ==
  /\ req[r].pc = "get_find" /\ req'[r].pc = "exit" /\ req'[r].err = "none"
  /\ ObjectIdIsValid(req[r].id)
  /\ ObjectId(req[r].id) \in OidPool
  /\ origin[ObjectId(req[r].id)].tag = "fresh"
  /\ req[r].id = OidStr(ObjectId(req[r].id))

SameAsCreated(r) ==
  LET o == origin[ObjectId(req[r].id)]
      got == req'[r].ret
  IN /\ got.tag = "doc"
     /\ got.doc.id = req[r].id
     /\ got.doc.title = o.title
     /\ got.doc.content = o.content

\* C2 as stated: create_post then get_post_by_id on the returned id, nothing
\* in between on that document, yields the same id, title and content and a
\* created timestamp no earlier than the start of the create call.
C2_CreatedNotBeforeCall ==
  [][\A r \in Reqs :
       GetAfterCreate(r) =>
         /\ SameAsCreated(r)
         /\ req'[r].ret.doc.created >= origin[ObjectId(req[r].id)].t0]_vars

\* C2 amended: the same id, title and content, and a created timestamp no
\* earlier than the start of the create call cut to the whole millisecond
\* (the store keeps milliseconds, so it can precede the start by less than
\* one millisecond).
C2_CreatedWithinMillisecond ==
  [][\A r \in Reqs :
       GetAfterCreate(r) =>
         LET t0 == origin[ObjectId(req[r].id)].t0
         IN /\ SameAsCreated(r)
            /\ req'[r].ret.doc.created >= t0 - (t0 % MillisMicros)]_vars

C2_Witness ==
  \E r \in Reqs :
    /\ AtExit(r, "get") /\ req[r].ret.tag = "doc"
    /\ ObjectId(req[r].id) \in OidPool
    /\ origin[ObjectId(req[r].id)].tag = "fresh"
    /\ origin[ObjectId(req[r].id)].t0 % MillisMicros # 0
    /\ req[r].ret.doc.created > 0
    /\ req[r].ret.doc.title = P2.title

Ids(coll) == {d._id : d \in coll}

\* C3: a step of update_post leaves the set of stored ids, every document
\* other than the one with the given id, and that document's id and
\* created timestamp as they were; with a malformed id or an id of no
\* document it leaves the whole store as it was.
C3_UpdateFrame ==
  [][\A r \in Reqs :
       (req[r].kind = "update" /\ req[r].pc # "idle" /\ req'[r] # req[r]) =>
         LET oid == ObjectId(req[r].id)
         IN /\ Ids(collection') = Ids(collection)
            /\ \A d \in collection : d._id # oid => d \in collection'
            /\ \A d \in collection, e \in collection' :
                 d._id = e._id => e.created = d.created
            /\ (~PathIdOk(req[r].id) \/ oid \notin Ids(collection))
                 => collection' = collection]_vars

C3_Witness ==
  \E r \in Reqs :
    /\ req[r].kind = "update" /\ req[r].pc = "update_find"
    /\ Cardinality(collection) = 2
    /\ \E d \in collection :
         /\ d._id = ObjectId(req[r].id) /\ d.title = req[r].body.title
         /\ d.created > 0
    /\ \E d \in collection : d._id # ObjectId(req[r].id) /\ d.title # req[r].body.title

\* C4: delete_post returns True exactly when it removed the one document
\* with the given id and nothing else, and returns False with the store
\* unchanged otherwise; so a delete of an id already deleted returns False
\* and removes no document.
C4_DeleteExactlyOne ==
  [][\A r \in Reqs :
       (req[r].pc = "delete_one" /\ req'[r].pc = "exit" /\ req'[r].err = "none") =>
         LET oid == ObjectId(req[r].id)
         IN /\ req'[r].ret \in {Bool(TRUE), Bool(FALSE)}
            /\ req'[r].ret = Bool(TRUE) <=>
                 \E d \in collection : d._id = oid /\ collection' = collection \ {d}
            /\ req'[r].ret = Bool(FALSE) => collection' = collection]_vars

C4_Witness ==
  \E r \in Reqs :
    /\ AtExit(r, "delete") /\ req[r].ret = Bool(FALSE)
    /\ ObjectId(req[r].id) \in used
    /\ collection # {}

\* C5: for an id that does not match ^[0-9a-fA-F]{24}$, get_post_by_id and
\* update_post return None, delete_post returns False, and no store
\* operation is issued.
C5_MalformedIdNoLookup ==
  \A r \in Reqs :
    (req[r].pc = "exit" /\ req[r].kind \in {"get", "update", "delete"}
       /\ ~PathIdOk(req[r].id))
      => /\ req[r].err = "none"
         /\ req[r].ret = IF req[r].kind = "delete" THEN Bool(FALSE) ELSE None
         /\ req[r].ops = 0

\* q occurs in t as a literal substring, letter case ignored.
ContainsIgnoreCase(q, t) ==
  \E i \in 1..(Len(t) + 1) :
    \A k \in 1..Len(q) :
      i + k - 1 <= Len(t) /\ Lower(q[k]) = Lower(t[i + k - 1])

\* C6: for a non-empty query, search_posts_by_title returns exactly the
\* stored documents whose title contains the query as a literal substring,
\* letter case ignored, and never an error when nothing matches.
C6_SearchIsLiteralSubstring ==
  \A r \in Reqs :
    (AtExit(r, "search") /\ StoreUp(r) /\ Len(req[r].query) >= 1)
      => /\ req[r].err = "none"
         /\ req[r].ret =
              Docs({MapDoc(d) : d \in {e \in collection :
                                         ContainsIgnoreCase(req[r].query, e.title)}})

C8_CreateNeverFails ==
  \A r \in Reqs :
    (AtExit(r, "create") /\ StoreUp(r))
      => /\ req[r].status = 201
         /\ req[r].ret.tag = "doc"
         /\ req[r].ret.doc.id = OidStr(req[r].inserted)

\* C9: when update_post's write matched a document, update_post returns
\* the mapped document, with the title and content of its own input,
\* whatever other requests run at the same time.
C9_UpdateReturnsItsWrite ==
  \A r \in Reqs :
    (AtExit(r, "update") /\ StoreUp(r) /\ req[r].matched >= 1)
      => /\ req[r].ret.tag = "doc"
         /\ req[r].ret.doc.title = req[r].body.title
         /\ req[r].ret.doc.content = req[r].body.content

\* A request in flight holds the client it opened itself, still open and
\* never closed; a finished one left its client closed, by one close.
ClientScoped ==
  \A r \in Reqs :
    /\ req[r].pc # "idle" =>
         /\ clients[req[r].db].opener = r
         /\ clients[req[r].db].state = "open"
         /\ clients[req[r].db].closes = 0
    /\ (req[r].pc = "idle" /\ clients[r].state # "none") =>
         /\ clients[r].state = "closed"
         /\ clients[r].closes = 1

\* C10: every request that got a handle from get_db closes its client in
\* the end, exactly once, whether the endpoint returned or raised; it issues
\* no store operation after the close, and it uses the client it opened.
C10_ClientClosedOnce ==
  /\ []ClientScoped
  /\ \A r \in Reqs : (clients[r].state = "open") ~> (clients[r].state = "closed")

C10_Witness ==
  \E r, s \in Reqs :
    /\ r # s
    /\ clients[r].state = "closed" /\ clients[r].closes = 1
    /\ clients[r].resumed = "raise"
    /\ clients[s].state = "closed" /\ clients[s].resumed = "return"

====
